---- MODULE Spec2Model ----
(***************************************************************************)
(* CVMailer: the run orchestrator (main), the per-record dispatch          *)
(* (process_company), the mail dispatcher (build_email / send_email), the  *)
(* form dispatcher (fill_form_and_submit) and the activity log             *)
(* (append_log), for both script variants of the repository:               *)
(*   "modular"  = scripts/__main__.py + processor.py + forms.py + ...      *)
(*   "monolith" = scripts/auto_apply_script.py                             *)
(*                                                                         *)
(* Text is modelled as a sequence of one-character strings, so that        *)
(* str.startswith, str.lower and the substring test are computed.  The     *)
(* accented letters are written as the tokens "c_cedilla", "e_acute",      *)
(* "C_cedilla", "E_acute" (one token = one character).                     *)
(***************************************************************************)
EXTENDS Integers, Sequences, FiniteSets, TLC

VARIABLES
    variant,             \* which entry point runs: "modular" or "monolith"
    playwrightInstalled, \* can `playwright.sync_api` be imported
    mode,                \* args.mode
    dry_run,             \* args.dry_run
    limit,               \* args.limit (0 stands for None: both are falsy)
    formsEnabled,        \* cfg["forms"]["enabled"]
    files,               \* cfg["files"]: file key -> path
    fs,                  \* the file system: the set of paths that are existing files
    table,               \* the rows read_companies returns
    companies,           \* main's list after the limit slice
    pc,                  \* main's / process_company's / fill_form_and_submit's position
    i,                   \* index of the record the for loop is at (1-based)
    count,               \* main's count
    ts,                  \* process_company's ts
    clock,               \* datetime.now(), one tick per step
    logfile,             \* the lines of the log CSV, header line included
    browser,             \* "none" | "open" | "closed": the Chromium of the current form call
    form,                \* locals of the running fill_form_and_submit call
    events,              \* call trace: which functions ran, for which row, in order
    built,               \* the messages build_email returned, in order
    sessions             \* the records whose Chromium process is running

vars == << variant, playwrightInstalled, mode, dry_run, limit, formsEnabled, files, fs, table,
           companies, pc, i, count, ts, clock, logfile, browser, form, events, built,
           sessions >>

inputs == << variant, playwrightInstalled, mode, dry_run, limit, formsEnabled, files, fs, table >>

\* ------------------------------------------------------------------ bounds

\* Longest company table of the orchestration runs.
MaxRows == 2

\* ------------------------------------------------------------------ text

None == "<None>"

S_success == <<"s","u","c","c","e","s","s">>
S_submitted == <<"s","u","b","m","i","t","t","e","d">>
S_success_detected == <<"s","u","c","c","e","s","s","_","d","e","t","e","c","t","e","d">>
S_clicked_failed == <<"c","l","i","c","k","e","d","_","f","a","i","l","e","d">>
S_pw_missing == <<"P","l","a","y","w","r","i","g","h","t"," ","n","o","t"," ","i","n","s","t","a","l","l","e","d">>
S_semicolon == <<";"," ">>
S_uploads_cv == <<"u","p","l","o","a","d","s"," ","c","v","=">>
S_letter == <<","," ","l","e","t","t","e","r","=">>
S_flyer == <<","," ","f","l","y","e","r","=">>
S_True == <<"T","r","u","e">>
S_False == <<"F","a","l","s","e">>

\* str(e) of the exceptions the environment or the code can raise.
S_NameError == <<"n","a","m","e"," ","'","P","L","A","Y","W","R","I","G","H","T","_","O","K","'"," ","i","s"," ","n","o","t"," ","d","e","f","i","n","e","d">>
S_smtp_error == <<"s","m","t","p",":"," ","a","u","t","h"," ","f","a","i","l","e","d">>
S_os_error == <<"I","s"," ","a"," ","d","i","r","e","c","t","o","r","y">>
S_launch_error == <<"E","x","e","c","u","t","a","b","l","e"," ","m","i","s","s","i","n","g">>
S_goto_error == <<"n","e","t",":",":","E","R","R","_","F","A","I","L","E","D">>

\* str.lower on the letters the page texts use; any other character maps to itself.
UpperToLower ==
    [c \in {"A","B","C","D","E","F","G","H","I","J","K","L","M","N","O","P","Q","R","S","T",
            "U","V","W","X","Y","Z","C_cedilla","E_acute"} |->
        CASE c = "A" -> "a" [] c = "B" -> "b" [] c = "C" -> "c" [] c = "D" -> "d"
          [] c = "E" -> "e" [] c = "F" -> "f" [] c = "G" -> "g" [] c = "H" -> "h"
          [] c = "I" -> "i" [] c = "J" -> "j" [] c = "K" -> "k" [] c = "L" -> "l"
          [] c = "M" -> "m" [] c = "N" -> "n" [] c = "O" -> "o" [] c = "P" -> "p"
          [] c = "Q" -> "q" [] c = "R" -> "r" [] c = "S" -> "s" [] c = "T" -> "t"
          [] c = "U" -> "u" [] c = "V" -> "v" [] c = "W" -> "w" [] c = "X" -> "x"
          [] c = "Y" -> "y" [] c = "Z" -> "z"
          [] c = "C_cedilla" -> "c_cedilla" [] c = "E_acute" -> "e_acute"]

Lower(s) == [k \in 1..Len(s) |-> IF s[k] \in DOMAIN UpperToLower THEN UpperToLower[s[k]] ELSE s[k]]

\* str.startswith
StartsWith(s, p) == Len(s) >= Len(p) /\ SubSeq(s, 1, Len(p)) = p

\* the `in` test of two strings
Contains(s, t) == \E k \in 1..(Len(s) - Len(t) + 1) : SubSeq(s, k, k + Len(t) - 1) = t

\* str(bool)
BoolStr(b) == IF b THEN S_True ELSE S_False

\* ------------------------------------------------------------------ configuration

\* DEFAULT_CONFIG["files"] of each variant.
Files(v) ==
    IF v = "modular"
    THEN [cv |-> "./docs/CV.pdf", cover_letter |-> "./docs/motivation.pdf",
          flyer |-> "./docs/flyer.pdf"]
    ELSE [cv |-> "./docs/CV.pdf", cover_letter |-> "./docs/Lettre_de_motivation.pdf",
          simplon_flyer |-> "./docs/SIMPLON_flyer.pdf"]

\* DEFAULT_CONFIG["email"]["attachments"] of each variant.
Attachments(v) ==
    IF v = "modular" THEN <<"cv", "cover_letter", "flyer">>
    ELSE <<"cv", "cover_letter", "simplon_flyer">>

\* DEFAULT_CONFIG["forms"]["selectors"], the same lists in both variants.
Selectors ==
    [name |-> <<"input[name*='name']", "input[name*='prenom']", "input[name*='nom']",
                "input[id*='name']", "input[id*='full']">>,
     email |-> <<"input[type='email']", "input[name*='mail']", "input[id*='mail']">>,
     phone |-> <<"input[type='tel']", "input[name*='phone']", "input[id*='phone']">>,
     message |-> <<"textarea[name*='message']", "textarea[id*='message']",
                   "textarea[name*='motivation']", "textarea[id*='motivation']">>,
     cv_upload |-> <<"input[type='file'][name*='cv']", "input[type='file'][id*='cv']",
                     "input[type='file'][name*='resume']", "input[type='file'][id*='resume']",
                     "input[type='file']">>,
     letter_upload |-> <<"input[type='file'][name*='lettre']",
                         "input[type='file'][name*='motivation']", "input[type='file']">>,
     flyer_upload |-> <<"input[type='file']">>,
     submit |-> <<"button[type='submit']", "input[type='submit']", "text=Postuler",
                  "text=Envoyer", "text=Soumettre", "text=Apply", "text=Submit">>]

\* The cookie-banner texts fill_form_and_submit clicks.
CookieSelectors == <<"text=Accepter", "text=Tout accepter", "text=OK", "text=D'accord">>

\* success_texts of fill_form_and_submit.
SuccessTexts ==
    << <<"m","e","r","c","i">>, <<"t","h","a","n","k"," ","y","o","u">>, <<"r","e","c_cedilla","u">>, <<"r","e","c","e","i","v","e","d">>, <<"e","n","v","o","y","e_acute","e">>, S_submitted, <<"b","i","e","n"," ","r","e","c_cedilla","u">> >>

\* The file key try_upload is called with for each upload group.
UploadFileKey == [cv_upload |-> "cv", letter_upload |-> "cover_letter",
                  flyer_upload |-> "simplon_flyer"]

\* Path(cfg["files"].get(key, "")): the empty path is the current directory.
PathOf(fl, key) == IF key \in DOMAIN fl THEN fl[key] ELSE "."

\* Path.exists(): the current directory always exists.
Exists(fsx, path) == path = "." \/ path \in fsx

\* open(path, "rb") and set_input_files(path) fail on a directory.
IsRegularFile(fsx, path) == path # "." /\ path \in fsx

\* ------------------------------------------------------------------ environment

\* What the web answers at each apply_url: whether Chromium launches and the
\* navigation succeeds, which selectors match an element ("matches"), which
\* matched elements refuse fill / click / set_input_files ("inert": hidden or
\* disabled, the action times out), for which selectors the query itself
\* raises ("errs"), and the page text after the submit step.
PageContent_thanks == <<"<","h","1",">","M","e","r","c","i"," ","!","<","/","h","1",">">>
PageContent_plain == <<"<","f","o","r","m",">","A","p","p","l","y","<","/","f","o","r","m",">">>
PageContent_404 == <<"<","p",">","4","0","4","<","/","p",">">>
PageContent_shout == <<"T","H","A","N","K"," ","Y","O","U">>
PageContent_recu == <<"B","i","e","n"," ","R","e","C_cedilla","U">>

NoPage == [launch |-> TRUE, goto |-> TRUE, matches |-> {}, inert |-> {}, errs |-> {},
           content |-> PageContent_404, contentOk |-> TRUE]

World ==
    [u \in {"https://thanks.test/apply", "https://inert.test/apply", "https://empty.test/apply",
            "https://shout.test/apply", "https://crash.test/apply", "https://multi.test/apply",
            "https://nolaunch.test/apply", "https://nogoto.test/apply"} |->
      CASE u = "https://thanks.test/apply" ->
             [NoPage EXCEPT !.matches = {"text=OK", "input[name*='name']", "input[id*='mail']",
                                         "textarea[name*='message']", "input[type='file']",
                                         "button[type='submit']"},
                            !.content = PageContent_thanks]
        [] u = "https://inert.test/apply" ->
             [NoPage EXCEPT !.matches = {"input[name*='name']", "input[id*='name']",
                                         "input[type='email']", "input[name*='phone']",
                                         "input[type='file'][name*='cv']", "input[type='file']",
                                         "button[type='submit']", "text=Envoyer", "text=Submit"},
                            !.inert = {"input[name*='name']", "input[type='email']",
                                       "input[type='file'][name*='cv']", "button[type='submit']"},
                            !.content = PageContent_plain]
        [] u = "https://empty.test/apply" -> NoPage
        [] u = "https://shout.test/apply" ->
             [NoPage EXCEPT !.matches = {"input[type='tel']"},
                            !.content = PageContent_shout]
        [] u = "https://crash.test/apply" ->
             [NoPage EXCEPT !.matches = {"text=Accepter", "text=D'accord", "input[name*='nom']",
                                         "textarea[id*='motivation']", "input[type='submit']",
                                         "input[type='file'][name*='motivation']"},
                            !.errs = {"input[name*='name']", "input[type='file']",
                                      "input[type='email']", "button[type='submit']"},
                            !.contentOk = FALSE]
        [] u = "https://multi.test/apply" ->
             [NoPage EXCEPT !.matches = {"input[name*='prenom']", "input[name*='nom']",
                                         "input[id*='full']", "input[type='email']",
                                         "input[name*='mail']", "input[type='tel']",
                                         "input[id*='phone']", "textarea[id*='message']",
                                         "textarea[name*='motivation']",
                                         "input[type='file'][id*='resume']",
                                         "input[type='file'][name*='lettre']", "input[type='file']",
                                         "text=Postuler", "text=Apply"},
                            !.content = PageContent_recu]
        [] u = "https://nolaunch.test/apply" -> [NoPage EXCEPT !.launch = FALSE]
        [] u = "https://nogoto.test/apply" -> [NoPage EXCEPT !.goto = FALSE]]

Urls == DOMAIN World

\* ------------------------------------------------------------------ form dispatcher, step by step

\* FillFrom with the break lost: the loop goes on after a completed fill.
RECURSIVE FillFromNoBreak(_, _, _)
FillFromNoBreak(page, sels, k) ==
    IF k > Len(sels)
    THEN [tried |-> <<>>, fillCalls |-> <<>>, filledBy |-> None]
    ELSE LET sel == sels[k]
             rest == FillFromNoBreak(page, sels, k + 1)
         IN  IF sel \in page.errs
             THEN [rest EXCEPT !.tried = <<sel>> \o @]
             ELSE IF sel \in page.matches
             THEN IF sel \in page.inert
                  THEN [rest EXCEPT !.tried = <<sel>> \o @, !.fillCalls = <<sel>> \o @]
                  ELSE [tried |-> <<sel>> \o rest.tried, fillCalls |-> <<sel>> \o rest.fillCalls,
                        filledBy |-> IF rest.filledBy # None THEN rest.filledBy ELSE sel]
             ELSE [rest EXCEPT !.tried = <<sel>> \o @]

\* One field's selector loop, from selector k on:
\*     for sel in selectors[field]:
\*         try:
\*             el = page.locator(sel).first
\*             if el.count() > 0: el.fill(...); break
\*         except Exception: pass
\* tried: the selectors queried; fillCalls: those el.fill was called on;
\* filledBy: the selector whose fill completed, None if the field stays empty.
RECURSIVE FillFrom(_, _, _)
FillFrom(page, sels, k) ==
    IF k > Len(sels)
    THEN [tried |-> <<>>, fillCalls |-> <<>>, filledBy |-> None]
    ELSE LET sel == sels[k]
             rest == FillFrom(page, sels, k + 1)
         IN  IF sel \in page.errs
             THEN [rest EXCEPT !.tried = <<sel>> \o @]
             ELSE IF sel \in page.matches
             THEN IF sel \in page.inert
                  THEN [rest EXCEPT !.tried = <<sel>> \o @, !.fillCalls = <<sel>> \o @]
                  ELSE [tried |-> <<sel>>, fillCalls |-> <<sel>>, filledBy |-> sel]
             ELSE [rest EXCEPT !.tried = <<sel>> \o @]


\* UploadFrom with the result taken from the match alone: True is returned for the
\* first matching input even when set_input_files raised on it.
RECURSIVE UploadFromMatchIsEnough(_, _, _, _, _)
UploadFromMatchIsEnough(page, fsx, path, sels, k) ==
    IF k > Len(sels)
    THEN [tried |-> <<>>, setCalls |-> <<>>, ok |-> FALSE]
    ELSE LET sel == sels[k]
             rest == UploadFromMatchIsEnough(page, fsx, path, sels, k + 1)
         IN  IF sel \in page.errs
             THEN [rest EXCEPT !.tried = <<sel>> \o @]
             ELSE IF sel \in page.matches
             THEN [tried |-> <<sel>>, setCalls |-> <<sel>>, ok |-> TRUE]
             ELSE [rest EXCEPT !.tried = <<sel>> \o @]

\* try_upload's selector loop, from selector k on, for an existing path.
\* setCalls: the selectors set_input_files was called on; ok: the return value.
RECURSIVE UploadFrom(_, _, _, _, _)
UploadFrom(page, fsx, path, sels, k) ==
    IF k > Len(sels)
    THEN [tried |-> <<>>, setCalls |-> <<>>, ok |-> FALSE]
    ELSE LET sel == sels[k]
             rest == UploadFrom(page, fsx, path, sels, k + 1)
         IN  IF sel \in page.errs
             THEN [rest EXCEPT !.tried = <<sel>> \o @]
             ELSE IF sel \in page.matches
             THEN IF sel \in page.inert \/ ~IsRegularFile(fsx, path)
                  THEN [rest EXCEPT !.tried = <<sel>> \o @, !.setCalls = <<sel>> \o @]
                  ELSE [tried |-> <<sel>>, setCalls |-> <<sel>>, ok |-> TRUE]
             ELSE [rest EXCEPT !.tried = <<sel>> \o @]

\* try_upload(group_key, file_key)
TryUpload(page, fl, fsx, group_key, file_key) ==
    LET path == PathOf(fl, file_key)
    IN  IF ~Exists(fsx, path)
        THEN [tried |-> <<>>, setCalls |-> <<>>, ok |-> FALSE]
        ELSE UploadFrom(page, fsx, path, Selectors[group_key], 1)

\* page.locator(sel).first.click() completes
ClickWorks(page, sel) == sel \in page.matches /\ sel \notin page.inert /\ sel \notin page.errs

\* The submit loop, from selector k on. clicks: the selectors click was called on;
\* clicked: the selector whose click completed, None if none did.
RECURSIVE ClickFrom(_, _, _)
ClickFrom(page, sels, k) ==
    IF k > Len(sels)
    THEN [clicks |-> <<>>, clicked |-> None]
    ELSE IF ClickWorks(page, sels[k])
         THEN [clicks |-> <<sels[k]>>, clicked |-> sels[k]]
         ELSE [ClickFrom(page, sels, k + 1) EXCEPT !.clicks = <<sels[k]>> \o @]

\* The cookie-banner loop: every text is clicked, failures are ignored, no break.
CookieClicks(page) == SelectSeq(CookieSelectors, LAMBDA sel : ClickWorks(page, sel))

\* any(t in content for t in success_texts)
HasSuccessText(content) ==
    \E k \in 1..Len(SuccessTexts) : Contains(content, SuccessTexts[k])

\* Outcome with the lower-casing lost.
OutcomeNoLower(page, submitted) ==
    IF page.contentOk /\ HasSuccessText(page.content)
    THEN S_success_detected
    ELSE IF submitted THEN S_submitted ELSE S_clicked_failed

\* The heuristic success check: outcome from `submitted` and the page text.
Outcome(page, submitted) ==
    IF page.contentOk /\ HasSuccessText(Lower(page.content))
    THEN S_success_detected
    ELSE IF submitted THEN S_submitted ELSE S_clicked_failed

\* f"{outcome}; uploads cv={cv_ok}, letter={letter_ok}, flyer={flyer_ok}"
ReturnString(outcome, cv_ok, letter_ok, flyer_ok) ==
    outcome \o S_semicolon \o S_uploads_cv \o BoolStr(cv_ok)
            \o S_letter \o BoolStr(letter_ok) \o S_flyer \o BoolStr(flyer_ok)

\* ------------------------------------------------------------------ mail dispatcher

\* build_email's attachment loop from key k on: a key whose path does not exist is
\* skipped, an existing path is opened and attached; open() raises on a directory.
RECURSIVE AttachFrom(_, _, _, _)
AttachFrom(fl, fsx, keys, k) ==
    IF k > Len(keys)
    THEN [raised |-> FALSE, attached |-> <<>>]
    ELSE LET path == PathOf(fl, keys[k])
         IN  IF ~Exists(fsx, path)
             THEN AttachFrom(fl, fsx, keys, k + 1)
             ELSE IF ~IsRegularFile(fsx, path)
             THEN [raised |-> TRUE, attached |-> <<>>]
             ELSE LET rest == AttachFrom(fl, fsx, keys, k + 1)
                  IN  [rest EXCEPT !.attached = IF rest.raised THEN <<>> ELSE <<keys[k]>> \o @]

\* build_email(cfg, comp)
BuildEmail(fl, fsx, keys) == AttachFrom(fl, fsx, keys, 1)

\* ------------------------------------------------------------------ process_company

EmailApplies(m, comp) == m \in {"email", "both"} /\ comp.contact_email # None

FormApplies(m, comp, enabled) == m \in {"form", "both"} /\ comp.apply_url # None /\ enabled

\* FormStatus with the second prefix lost.
FormStatusSuccessOnly(details) == IF StartsWith(details, S_success) THEN "ok" ELSE "check"

\* status = "ok" if details.startswith("success") or details.startswith("submitted") else "check"
FormStatus(details) ==
    IF StartsWith(details, S_success) \/ StartsWith(details, S_submitted) THEN "ok" ELSE "check"

\* fill_form_and_submit(cfg, comp) of variant v as one function of its inputs: whether
\* it raised, and the string it returned or the text of the exception.
\* scripts/forms.py tests the undefined name PLAYWRIGHT_OK first; auto_apply_script.py
\* defines it and goes on to the browser.
FormCall(v, pw, url, fl, fsx) ==
    LET page == World[url]
    IN  IF v = "modular" THEN [raised |-> TRUE, text |-> S_NameError]
        ELSE IF ~pw THEN [raised |-> FALSE, text |-> S_pw_missing]
        ELSE IF ~page.launch THEN [raised |-> TRUE, text |-> S_launch_error]
        ELSE IF ~page.goto THEN [raised |-> TRUE, text |-> S_goto_error]
        ELSE [raised |-> FALSE,
              text |-> ReturnString(
                  Outcome(page, ClickFrom(page, Selectors.submit, 1).clicked # None),
                  TryUpload(page, fl, fsx, "cv_upload", UploadFileKey.cv_upload).ok,
                  TryUpload(page, fl, fsx, "letter_upload", UploadFileKey.letter_upload).ok,
                  TryUpload(page, fl, fsx, "flyer_upload", UploadFileKey.flyer_upload).ok)]

\* ------------------------------------------------------------------ activity log

HeaderLine == [kind |-> "header",
               row |-> <<"timestamp", "company", "channel", "target", "status", "details">>]


\* AppendLog with the existence test lost: the header is written by every call.
AppendLogAlwaysHeader(file, row) ==
    [exists |-> TRUE,
     lines |-> file.lines \o <<HeaderLine>> \o <<[kind |-> "row", row |-> row]>>]

\* append_log(log_csv, row): the header goes first when the file does not exist yet.
AppendLog(file, row) ==
    [exists |-> TRUE,
     lines |-> file.lines \o (IF file.exists THEN <<>> ELSE <<HeaderLine>>)
                          \o <<[kind |-> "row", row |-> row]>>]

LogRow(t, comp, channel, target, status, details) ==
    [timestamp |-> t, company |-> comp.company, channel |-> channel, target |-> target,
     status |-> status, details |-> details]

\* The data rows of the log, in file order.
Entries == LET rows == SelectSeq(logfile.lines, LAMBDA l : l.kind = "row")
           IN  [k \in 1..Len(rows) |-> rows[k].row]

\* ------------------------------------------------------------------ state machine

NoFill == [tried |-> <<>>, fillCalls |-> <<>>, filledBy |-> None]
NoUpload == [tried |-> <<>>, setCalls |-> <<>>, ok |-> FALSE]
NoClick == [clicks |-> <<>>, clicked |-> None]

\* fill_form_and_submit's locals before its first statement.
IdleForm ==
    [url |-> None, cookies |-> <<>>,
     name |-> NoFill, email |-> NoFill, phone |-> NoFill, message |-> NoFill,
     cv_ok |-> NoUpload, letter_ok |-> NoUpload, flyer_ok |-> NoUpload,
     submit |-> NoClick, outcome |-> <<>>,
     returned |-> FALSE, ret |-> <<>>, raised |-> FALSE, exc |-> <<>>]

\* One entry of the call trace: the function, the row it ran for, the time.
Ev(op, row) == [op |-> op, row |-> row, at |-> clock]

Comp == companies[i]

Page == World[form.url]

Tick == clock' = clock + 1

\* main up to the loop: companies = companies[:args.limit] when a limit is given.
Start ==
    /\ pc = "start"
    /\ ~(variant = "modular" /\ ~playwrightInstalled)
    /\ companies' = IF limit # 0
                    THEN SubSeq(table, 1, IF limit < Len(table) THEN limit ELSE Len(table))
                    ELSE table
    /\ count' = 0
    /\ i' = 1
    /\ pc' = "loop"
    /\ Tick
    /\ UNCHANGED << inputs, built, ts, logfile, browser, sessions, form, events >>

\* scripts/forms.py imports playwright unconditionally at module level: without the
\* library the modular entry point dies while importing, before main runs.
ImportFails ==
    /\ pc = "start"
    /\ variant = "modular" /\ ~playwrightInstalled
    /\ pc' = "aborted"
    /\ Tick
    /\ UNCHANGED << inputs, built, companies, i, count, ts, logfile, browser, sessions, form, events >>

\* Skipped with the second rule lost: a record without any contact is processed.
SkippedOnlyEmptyCompany(comp) == comp.company = ""

Skipped(comp) ==
    \/ comp.company = ""
    \/ comp.contact_email = None /\ comp.apply_url = None


\* SkipRecord with the delay at the top of the loop body: a skipped record waits too.
SkipRecordDelays ==
    /\ pc = "loop"
    /\ i <= Len(companies)
    /\ Skipped(Comp)
    /\ events' = events \o <<Ev("examine", i), Ev("delay", i)>>
    /\ i' = i + 1
    /\ Tick
    /\ UNCHANGED << inputs, built, companies, pc, count, ts, logfile, browser, sessions, form >>

\* for comp in companies: the two `continue` rules.
SkipRecord ==
    /\ pc = "loop"
    /\ i <= Len(companies)
    /\ Skipped(Comp)
    /\ events' = Append(events, Ev("examine", i))
    /\ i' = i + 1
    /\ Tick
    /\ UNCHANGED << inputs, built, companies, pc, count, ts, logfile, browser, sessions, form >>

\* process_company(cfg, comp, ...) is entered: ts = datetime.now()
CallProcess ==
    /\ pc = "loop"
    /\ i <= Len(companies)
    /\ ~Skipped(Comp)
    /\ events' = events \o <<Ev("examine", i), Ev("process", i)>>
    /\ ts' = clock
    /\ pc' = "proc_email"
    /\ Tick
    /\ UNCHANGED << inputs, built, companies, i, count, logfile, browser, sessions, form >>

\* the for loop runs out of records
LoopEnd ==
    /\ pc = "loop"
    /\ i > Len(companies)
    /\ pc' = "finish"
    /\ Tick
    /\ UNCHANGED << inputs, built, companies, i, count, ts, logfile, browser, sessions, form, events >>

\* The message build_email returns for the current record: its To header and the
\* configured attachment keys whose file was attached, in order.
Message ==
    [row |-> i, to |-> Comp.contact_email,
     attachments |-> BuildEmail(files, fs, Attachments(variant)).attached]

\* EmailAttempt with a retry: a failed send is attempted a second time.
EmailAttemptRetries(smtpOk) ==
    IF dry_run
    THEN [status |-> "dry_run", details |-> <<>>, calls |-> <<>>, msgs |-> <<>>]
    ELSE IF BuildEmail(files, fs, Attachments(variant)).raised
    THEN [status |-> "error", details |-> S_os_error, msgs |-> <<>>,
          calls |-> <<Ev("build_email", i), Ev("build_email_raised", i)>>]
    ELSE IF smtpOk
    THEN [status |-> "sent", details |-> <<>>, msgs |-> <<Message>>,
          calls |-> <<Ev("build_email", i), Ev("send_email", i)>>]
    ELSE [status |-> "sent", details |-> <<>>, msgs |-> <<Message>>,
          calls |-> <<Ev("build_email", i), Ev("send_email", i), Ev("send_email_raised", i),
                      Ev("send_email", i)>>]

\* EmailAttempt with the dry-run test lost: the message is built and sent anyway.
EmailAttemptIgnoresDryRun(smtpOk) ==
    IF BuildEmail(files, fs, Attachments(variant)).raised
    THEN [status |-> "error", details |-> S_os_error, msgs |-> <<>>,
          calls |-> <<Ev("build_email", i), Ev("build_email_raised", i)>>]
    ELSE IF smtpOk
    THEN [status |-> IF dry_run THEN "dry_run" ELSE "sent", details |-> <<>>,
          msgs |-> <<Message>>,
          calls |-> <<Ev("build_email", i), Ev("send_email", i)>>]
    ELSE [status |-> "error", details |-> S_smtp_error, msgs |-> <<Message>>,
          calls |-> <<Ev("build_email", i), Ev("send_email", i), Ev("send_email_raised", i)>>]

\* The status and details the email block logs, and the calls it made, given whether
\* the SMTP session succeeds.
EmailAttempt(smtpOk) ==
    IF dry_run
    THEN [status |-> "dry_run", details |-> <<>>, calls |-> <<>>, msgs |-> <<>>]
    ELSE IF BuildEmail(files, fs, Attachments(variant)).raised
    THEN [status |-> "error", details |-> S_os_error, msgs |-> <<>>,
          calls |-> <<Ev("build_email", i), Ev("build_email_raised", i)>>]
    ELSE IF smtpOk
    THEN [status |-> "sent", details |-> <<>>, msgs |-> <<Message>>,
          calls |-> <<Ev("build_email", i), Ev("send_email", i)>>]
    ELSE [status |-> "error", details |-> S_smtp_error, msgs |-> <<Message>>,
          calls |-> <<Ev("build_email", i), Ev("send_email", i), Ev("send_email_raised", i)>>]


\* EmailChannel with the except branch returning: after a failed mail the record's
\* form block is not run.
EmailChannelErrorReturns ==
    /\ pc = "proc_email"
    /\ IF EmailApplies(mode, Comp)
       THEN \E smtpOk \in BOOLEAN :
              LET a == EmailAttempt(smtpOk)
              IN  /\ logfile' = AppendLog(logfile,
                        LogRow(ts, Comp, "email", Comp.contact_email, a.status, a.details))
                  /\ events' = events \o a.calls
                  /\ built' = built \o a.msgs
                  /\ pc' = IF a.status = "error" THEN "after" ELSE "proc_form"
       ELSE /\ UNCHANGED << logfile, events, built >>
            /\ pc' = "proc_form"
    /\ Tick
    /\ UNCHANGED << inputs, companies, i, count, ts, browser, sessions, form >>

\* process_company's email block
EmailChannel ==
    /\ pc = "proc_email"
    /\ IF EmailApplies(mode, Comp)
       THEN \E smtpOk \in BOOLEAN :
              LET a == EmailAttempt(smtpOk)
              IN  /\ logfile' = AppendLog(logfile,
                        LogRow(ts, Comp, "email", Comp.contact_email, a.status, a.details))
                  /\ events' = events \o a.calls
                  /\ built' = built \o a.msgs
       ELSE UNCHANGED << logfile, events, built >>
    /\ pc' = "proc_form"
    /\ Tick
    /\ UNCHANGED << inputs, companies, i, count, ts, browser, sessions, form >>

\* process_company's form block up to the call: the guard, the dry-run branch, and
\* the first statements of fill_form_and_submit (the PLAYWRIGHT_OK test).
\* scripts/forms.py never defines or imports PLAYWRIGHT_OK: the test raises NameError.
FormChannel ==
    /\ pc = "proc_form"
    /\ IF ~FormApplies(mode, Comp, formsEnabled)
       THEN /\ pc' = "after"
            /\ UNCHANGED << logfile, events, form >>
       ELSE IF dry_run
       THEN /\ logfile' = AppendLog(logfile,
                              LogRow(ts, Comp, "form", Comp.apply_url, "dry_run", <<>>))
            /\ pc' = "after"
            /\ UNCHANGED << events, form >>
       ELSE /\ events' = Append(events, Ev("fill_form_and_submit", i))
            /\ UNCHANGED logfile
            /\ IF variant = "modular"
               THEN /\ form' = [IdleForm EXCEPT !.url = Comp.apply_url,
                                                !.raised = TRUE, !.exc = S_NameError]
                    /\ pc' = "proc_form_log"
               ELSE IF ~playwrightInstalled
               THEN /\ form' = [IdleForm EXCEPT !.url = Comp.apply_url,
                                                !.returned = TRUE, !.ret = S_pw_missing]
                    /\ pc' = "proc_form_log"
               ELSE /\ form' = [IdleForm EXCEPT !.url = Comp.apply_url]
                    /\ pc' = "f_launch"
    /\ Tick
    /\ UNCHANGED << inputs, built, companies, i, count, ts, browser, sessions >>


\* FLaunch without the `with` block: a failed navigation leaves Chromium running.
FLaunchNoWith ==
    /\ pc = "f_launch"
    /\ IF ~Page.launch
       THEN /\ events' = Append(events, Ev("launch", i))
            /\ form' = [form EXCEPT !.raised = TRUE, !.exc = S_launch_error]
            /\ browser' = "none"
            /\ UNCHANGED sessions
            /\ pc' = "proc_form_log"
       ELSE IF ~Page.goto
       THEN /\ events' = events \o <<Ev("launch", i), Ev("goto", i)>>
            /\ form' = [form EXCEPT !.raised = TRUE, !.exc = S_goto_error]
            /\ browser' = "open"
            /\ sessions' = sessions \cup {i}
            /\ pc' = "proc_form_log"
       ELSE /\ events' = events \o <<Ev("launch", i), Ev("goto", i)>>
            /\ browser' = "open"
            /\ sessions' = sessions \cup {i}
            /\ pc' = "f_cookies"
            /\ UNCHANGED form
    /\ Tick
    /\ UNCHANGED << inputs, built, companies, i, count, ts, logfile >>

\* chromium.launch, new_page, page.goto(comp.apply_url); an exception leaves the
\* `with sync_playwright()` block, which stops the driver and its browser.
FLaunch ==
    /\ pc = "f_launch"
    /\ IF ~Page.launch
       THEN /\ events' = Append(events, Ev("launch", i))
            /\ form' = [form EXCEPT !.raised = TRUE, !.exc = S_launch_error]
            /\ browser' = "none"
            /\ UNCHANGED sessions
            /\ pc' = "proc_form_log"
       ELSE IF ~Page.goto
       THEN /\ events' = events \o <<Ev("launch", i), Ev("goto", i)>>
            /\ form' = [form EXCEPT !.raised = TRUE, !.exc = S_goto_error]
            /\ browser' = "closed"
            /\ UNCHANGED sessions
            /\ pc' = "proc_form_log"
       ELSE /\ events' = events \o <<Ev("launch", i), Ev("goto", i)>>
            /\ browser' = "open"
            /\ sessions' = sessions \cup {i}
            /\ pc' = "f_cookies"
            /\ UNCHANGED form
    /\ Tick
    /\ UNCHANGED << inputs, built, companies, i, count, ts, logfile >>

FStep(from, to, newForm) ==
    /\ pc = from
    /\ form' = newForm
    /\ pc' = to
    /\ Tick
    /\ UNCHANGED << inputs, built, companies, i, count, ts, logfile, browser, sessions, events >>

FCookies == FStep("f_cookies", "f_name", [form EXCEPT !.cookies = CookieClicks(Page)])

FName == FStep("f_name", "f_email", [form EXCEPT !.name = FillFrom(Page, Selectors.name, 1)])

FEmail == FStep("f_email", "f_phone", [form EXCEPT !.email = FillFrom(Page, Selectors.email, 1)])

FPhone == FStep("f_phone", "f_message", [form EXCEPT !.phone = FillFrom(Page, Selectors.phone, 1)])

FMessage ==
    FStep("f_message", "f_uploads", [form EXCEPT !.message = FillFrom(Page, Selectors.message, 1)])

\* cv_ok, letter_ok, flyer_ok = the three try_upload calls
FUploads ==
    FStep("f_uploads", "f_submit",
          [form EXCEPT
             !.cv_ok = TryUpload(Page, files, fs, "cv_upload", UploadFileKey.cv_upload),
             !.letter_ok = TryUpload(Page, files, fs, "letter_upload", UploadFileKey.letter_upload),
             !.flyer_ok = TryUpload(Page, files, fs, "flyer_upload", UploadFileKey.flyer_upload)])

FSubmit == FStep("f_submit", "f_detect", [form EXCEPT !.submit = ClickFrom(Page, Selectors.submit, 1)])

\* FDetect without the try/except around page.content(): the exception leaves the
\* function.
FDetectNoCatch ==
    /\ pc = "f_detect"
    /\ IF Page.contentOk
       THEN /\ form' = [form EXCEPT !.outcome = Outcome(Page, form.submit.clicked # None)]
            /\ pc' = "f_close"
            /\ UNCHANGED << browser, sessions >>
       ELSE /\ form' = [form EXCEPT !.raised = TRUE, !.exc = S_goto_error]
            /\ pc' = "proc_form_log"
            /\ browser' = "closed"
            /\ sessions' = sessions \ {i}
    /\ Tick
    /\ UNCHANGED << inputs, built, companies, i, count, ts, logfile, events >>

FDetect ==
    FStep("f_detect", "f_close",
          [form EXCEPT !.outcome = Outcome(Page, form.submit.clicked # None)])

\* browser.close() and the return statement
FClose ==
    /\ pc = "f_close"
    /\ browser' = "closed"
    /\ sessions' = sessions \ {i}
    /\ events' = Append(events, Ev("close", i))
    /\ form' = [form EXCEPT !.returned = TRUE,
                            !.ret = ReturnString(form.outcome, form.cv_ok.ok,
                                                 form.letter_ok.ok, form.flyer_ok.ok)]
    /\ pc' = "proc_form_log"
    /\ Tick
    /\ UNCHANGED << inputs, built, companies, i, count, ts, logfile >>

\* FormLog without the except branch: the exception leaves process_company and main.
FormLogNoCatch ==
    /\ pc = "proc_form_log"
    /\ IF form.raised
       THEN /\ pc' = "crashed"
            /\ UNCHANGED << logfile, events >>
       ELSE /\ logfile' = AppendLog(logfile,
                 LogRow(ts, Comp, "form", Comp.apply_url, FormStatus(form.ret), form.ret))
            /\ events' = Append(events, Ev("fill_form_returned", i))
            /\ pc' = "after"
    /\ form' = IdleForm
    /\ Tick
    /\ UNCHANGED << inputs, built, companies, i, count, ts, browser, sessions >>

\* process_company after the call: the status and the log entry, or the except branch.
FormLog ==
    /\ pc = "proc_form_log"
    /\ logfile' = AppendLog(logfile,
          IF form.raised
          THEN LogRow(ts, Comp, "form", Comp.apply_url, "error", form.exc)
          ELSE LogRow(ts, Comp, "form", Comp.apply_url, FormStatus(form.ret), form.ret))
    /\ events' = Append(events,
          Ev(IF form.raised THEN "fill_form_raised" ELSE "fill_form_returned", i))
    /\ form' = IdleForm
    /\ pc' = "after"
    /\ Tick
    /\ UNCHANGED << inputs, built, companies, i, count, ts, browser, sessions >>

\* LimitReached off by one.
LimitReachedLate(c) == limit # 0 /\ c > limit

\* count += 1; if args.limit and count >= args.limit: break
LimitReached(c) == limit # 0 /\ c >= limit

AfterProcess ==
    /\ pc = "after"
    /\ count' = count + 1
    /\ pc' = IF LimitReached(count + 1) THEN "finish" ELSE "delay"
    /\ Tick
    /\ UNCHANGED << inputs, built, companies, i, ts, logfile, browser, sessions, form, events >>

\* random_delay(min_delay, max_delay), then the next iteration
Delay ==
    /\ pc = "delay"
    /\ events' = Append(events, Ev("delay", i))
    /\ i' = i + 1
    /\ pc' = "loop"
    /\ Tick
    /\ UNCHANGED << inputs, built, companies, count, ts, logfile, browser, sessions, form >>

\* print("[i] Done. See log: ...")
Finish ==
    /\ pc = "finish"
    /\ events' = Append(events, Ev("done", 0))
    /\ pc' = "done"
    /\ Tick
    /\ UNCHANGED << inputs, built, companies, i, count, ts, logfile, browser, sessions, form >>

\* ------------------------------------------------------------------ inputs

Row(c, e, u) == [company |-> c, contact_email |-> e, apply_url |-> u]

\* The row kinds of the orchestration runs: empty company; no contact at all;
\* email only; URL only; both.
RunRows ==
    { Row("", "hr@anon.test", "https://thanks.test/apply"),
      Row("Nemo", None, None),
      Row("Mailco", "jobs@mailco.test", None),
      Row("Urlco", None, "https://inert.test/apply"),
      Row("Acme", "hr@acme.test", "https://thanks.test/apply") }

RunTables == UNION { [1..n -> RunRows] : n \in 0..MaxRows }

\* The file systems tried: no document, the CV only, all the configured documents.
FsChoices(fl) == { {}, {fl.cv}, {fl[k] : k \in DOMAIN fl} }

\* The files sections tried: the variant's default, and one that lost its
\* cover_letter entry.
FilesChoices(v) == { Files(v), [k \in DOMAIN Files(v) \ {"cover_letter"} |-> Files(v)[k]] }

InitControl ==
    /\ companies = <<>>
    /\ pc = "start"
    /\ i = 1
    /\ count = 0
    /\ ts = 0
    /\ clock = 1
    /\ logfile = [exists |-> FALSE, lines |-> <<>>]
    /\ browser = "none"
    /\ form = IdleForm
    /\ events = <<>>
    /\ built = <<>>
    /\ sessions = {}

\* Whole runs over every table of up to MaxRows rows, with the default configuration.
InitRun ==
    /\ variant \in {"modular", "monolith"}
    /\ playwrightInstalled \in BOOLEAN
    /\ mode \in {"email", "form", "both"}
    /\ dry_run \in BOOLEAN
    /\ limit \in 0..MaxRows
    /\ formsEnabled \in BOOLEAN
    /\ files = Files(variant)
    /\ fs = {files.cv}
    /\ table \in RunTables

\* One record against every page, files section and file system.
InitDispatch ==
    /\ variant \in {"modular", "monolith"}
    /\ playwrightInstalled = TRUE
    /\ mode \in {"email", "form", "both"}
    /\ dry_run = FALSE
    /\ limit = 0
    /\ formsEnabled = TRUE
    /\ files \in FilesChoices(variant)
    /\ fs \in FsChoices(files)
    /\ table \in { <<Row("Acme", "hr@acme.test", u)>> : u \in Urls }

Init == (InitRun \/ InitDispatch) /\ InitControl

Next ==
    \/ Start \/ ImportFails \/ SkipRecord \/ CallProcess \/ LoopEnd
    \/ EmailChannel \/ FormChannel
    \/ FLaunch \/ FCookies \/ FName \/ FEmail \/ FPhone \/ FMessage
    \/ FUploads \/ FSubmit \/ FDetect \/ FClose
    \/ FormLog \/ AfterProcess \/ Delay \/ Finish

Spec == Init /\ [][Next]_vars

FairSpec == Spec /\ WF_vars(Next)

\* ------------------------------------------------------------------ vocabulary of the claims

EvIdx(op, r) == { k \in 1..Len(events) : events[k].op = op /\ events[k].row = r }

EvCount(op, r) == Cardinality(EvIdx(op, r))

Ops(opset) == { k \in 1..Len(events) : events[k].op \in opset }

Processed(r) == EvIdx("process", r) # {}

\* The log entries of row r on one channel: those stamped with the time row r's
\* process_company call started.
RowEntries(r, ch) ==
    IF Processed(r)
    THEN LET at == events[CHOOSE k \in EvIdx("process", r) : TRUE].at
         IN  { k \in 1..Len(Entries) : Entries[k].timestamp = at /\ Entries[k].channel = ch }
    ELSE {}

\* Row r's email block, resp. whole process_company call, has completed.
EmailBlockDone(r) == Processed(r) /\ ~(i = r /\ pc = "proc_email")

ProcessDone(r) ==
    Processed(r) /\ ~(i = r /\ pc \in {"proc_email", "proc_form", "f_launch", "f_cookies", "f_name",
                                       "f_email", "f_phone", "f_message", "f_uploads", "f_submit",
                                       "f_detect", "f_close", "proc_form_log"})

Eligible(comp) == comp.company # "" /\ (comp.contact_email # None \/ comp.apply_url # None)

ChannelApplies(comp, ch) ==
    IF ch = "email"
    THEN mode \in {"email", "both"} /\ comp.contact_email # None
    ELSE mode \in {"form", "both"} /\ comp.apply_url # None /\ formsEnabled

Rows == 1..Len(companies)

\* ------------------------------------------------------------------ claims

\* C1: in dry-run mode no mail is built or sent and no form call or browser launch
\* happens; every log entry has status "dry_run"; and once a record's
\* process_company call is over it has exactly one entry on each applicable channel
\* and none on the others; at the end of the run every eligible record the run kept
\* (after the limit slice) has been processed.
C1_DryRunLogsOnly ==
    dry_run =>
      /\ Ops({"build_email", "send_email", "fill_form_and_submit", "launch", "goto"}) = {}
      /\ browser = "none"
      /\ \A k \in 1..Len(Entries) :
           /\ Entries[k].status = "dry_run"
           /\ \E r \in Rows : k \in RowEntries(r, Entries[k].channel)
      /\ \A r \in Rows : \A ch \in {"email", "form"} :
           /\ Cardinality(RowEntries(r, ch)) <= 1
           /\ ProcessDone(r) =>
                Cardinality(RowEntries(r, ch)) = IF ChannelApplies(companies[r], ch) THEN 1 ELSE 0
      /\ pc = "done" => \A r \in Rows : Eligible(companies[r]) => ProcessDone(r)

\* A finished dry run in mode both over a record with both contacts and a record
\* with one: three entries.
C1_Witness ==
    /\ pc = "done" /\ dry_run /\ mode = "both" /\ formsEnabled
    /\ Len(Entries) = 3
    /\ \E r \in Rows : RowEntries(r, "email") # {} /\ RowEntries(r, "form") # {}

\* C2: a record with an empty company name, or with neither contact_email nor
\* apply_url, is never passed to process_company or to a dispatcher, and no log
\* entry belongs to it: every entry belongs to a processed record that has a name
\* and a contact.
C2_SkippedRowsLeaveNoTrace ==
    /\ \A r \in 1..Len(table) :
         (table[r].company = "" \/ (table[r].contact_email = None /\ table[r].apply_url = None))
           => /\ \A k \in 1..Len(events) : events[k].row = r => events[k].op = "examine"
              /\ RowEntries(r, "email") = {} /\ RowEntries(r, "form") = {}
    /\ \A k \in 1..Len(Entries) :
         \E r \in Rows :
           /\ k \in RowEntries(r, Entries[k].channel)
           /\ Entries[k].company = companies[r].company
           /\ Entries[k].company # ""
           /\ Entries[k].target # None
           /\ Entries[k].target \in {companies[r].contact_email, companies[r].apply_url}

\* A finished real run in mode both over a nameless record (that has both contacts)
\* and a record without contact: both examined, nothing logged.
C2_Witness ==
    /\ pc = "done" /\ ~dry_run /\ mode = "both"
    /\ Len(table) = 2
    /\ table[1].company = "" /\ table[1].contact_email # None /\ table[1].apply_url # None
    /\ table[2].company # "" /\ table[2].contact_email = None /\ table[2].apply_url = None
    /\ EvCount("examine", 1) = 1 /\ EvCount("examine", 2) = 1
    /\ Len(Entries) = 0

\* C3: in a real run, once a record's email block is over: if the mode includes
\* email and the record has a contact_email there is exactly one email entry,
\* build_email and send_email were each called at most once, the status is "sent"
\* exactly when both calls completed without raising, and otherwise it is "error"
\* with the exception's text as details; if the channel does not apply there is no
\* email entry.
C3_EmailOutcome ==
    ~dry_run =>
      \A r \in Rows :
        /\ EvCount("build_email", r) <= 1
        /\ EvCount("send_email", r) <= 1
        /\ Cardinality(RowEntries(r, "email")) <= 1
        /\ EmailBlockDone(r) =>
             IF mode \in {"email", "both"} /\ companies[r].contact_email # None
             THEN \E k \in RowEntries(r, "email") :
                    LET e == Entries[k]
                        completed == /\ EvCount("build_email", r) = 1
                                     /\ EvCount("send_email", r) = 1
                                     /\ EvCount("build_email_raised", r) = 0
                                     /\ EvCount("send_email_raised", r) = 0
                    IN  /\ e.target = companies[r].contact_email
                        /\ e.company = companies[r].company
                        /\ (e.status = "sent") <=> completed
                        /\ completed => e.details = <<>>
                        /\ ~completed =>
                             /\ e.status = "error"
                             /\ e.details = IF EvCount("build_email_raised", r) = 1
                                            THEN S_os_error ELSE S_smtp_error
             ELSE RowEntries(r, "email") = {} /\ EvCount("build_email", r) = 0

\* A finished real run with one mail sent and one send failure logged.
C3_Witness ==
    /\ pc = "done" /\ ~dry_run
    /\ \E k1, k2 \in 1..Len(Entries) :
         /\ Entries[k1].channel = "email" /\ Entries[k1].status = "sent"
         /\ Entries[k2].channel = "email" /\ Entries[k2].status = "error"
         /\ Entries[k2].details = S_smtp_error

\* C4: in a real run, once a record's process_company call is over: if the mode
\* includes form, the record has an apply_url and forms are enabled, there is
\* exactly one form entry, from exactly one fill_form_and_submit call; its status is
\* "error" if the call raised; otherwise it is "ok" if the returned string (the
\* entry's details) begins with "success" or "submitted" and "check" for any other
\* string, "clicked_failed..." and "Playwright not installed" included; if the
\* channel does not apply there is no form entry and no call.
C4_FormOutcome ==
    ~dry_run =>
      \A r \in Rows :
        /\ EvCount("fill_form_and_submit", r) <= 1
        /\ Cardinality(RowEntries(r, "form")) <= 1
        /\ ProcessDone(r) =>
             IF mode \in {"form", "both"} /\ companies[r].apply_url # None /\ formsEnabled
             THEN \E k \in RowEntries(r, "form") :
                    LET e == Entries[k]
                    IN  /\ e.target = companies[r].apply_url
                        /\ EvCount("fill_form_and_submit", r) = 1
                        /\ EvCount("fill_form_raised", r) + EvCount("fill_form_returned", r) = 1
                        /\ EvCount("fill_form_raised", r) = 1 => e.status = "error"
                        /\ EvCount("fill_form_returned", r) = 1 =>
                             /\ e.status \in {"ok", "check"}
                             /\ (e.status = "ok") <=>
                                  (StartsWith(e.details, S_success) \/ StartsWith(e.details, S_submitted))
                             /\ StartsWith(e.details, S_clicked_failed) => e.status = "check"
                             /\ e.details = S_pw_missing => e.status = "check"
             ELSE RowEntries(r, "form") = {} /\ EvCount("fill_form_and_submit", r) = 0

\* A finished real run whose log holds an "ok" entry for a "submitted..." result and
\* an "ok" entry for a "success_detected..." result.
C4_Witness ==
    /\ pc = "done" /\ ~dry_run
    /\ \E k1, k2 \in 1..Len(Entries) :
         /\ Entries[k1].channel = "form" /\ Entries[k1].status = "ok"
         /\ StartsWith(Entries[k1].details, S_submitted)
         /\ Entries[k2].channel = "form" /\ Entries[k2].status = "ok"
         /\ StartsWith(Entries[k2].details, S_success_detected)

\* C5: whatever fails while a record is processed, the run goes on: no row is
\* examined twice, a run that entered its loop reaches the final "Done" step, and
\* there every row the run kept has been examined once and every eligible one of
\* them has been processed.
C5_Safety ==
    /\ \A r \in Rows : EvCount("examine", r) <= 1 /\ EvCount("process", r) <= 1
    /\ pc = "done" =>
         \A r \in Rows : /\ EvCount("examine", r) = 1
                         /\ Eligible(companies[r]) => ProcessDone(r)

C5_FailuresDoNotAbort == [](C5_Safety) /\ ((pc = "loop") ~> (pc = "done"))

\* A finished run of two records where both channels of the first record failed
\* and the second record was processed and logged all the same.
C5_Witness ==
    /\ pc = "done" /\ Len(companies) = 2
    /\ \E k \in RowEntries(1, "email") : Entries[k].status = "error"
    /\ \E k \in RowEntries(1, "form") : Entries[k].status = "error"
    /\ RowEntries(2, "email") # {} /\ RowEntries(2, "form") # {}

\* C6: with the browser library installed, every fill_form_and_submit call of a real
\* run gets as far as launching the browser, and navigates to the record's
\* apply_url when the launch succeeds: no call ends before the launch.
C6_FormCallReachesNavigation ==
    (pc = "proc_form_log" /\ playwrightInstalled) =>
      /\ EvCount("launch", i) = 1
      /\ World[Comp.apply_url].launch => EvCount("goto", i) = 1

\* C7: with a limit L >= 1 at most L records are passed to process_company, and
\* after the L-th one nothing more is examined or processed and no delay happens:
\* the loop is left straight after count reaches L.
C7_LimitStops ==
    limit >= 1 =>
      LET procs == Ops({"process"})
      IN  /\ Cardinality(procs) <= limit
          /\ count <= limit
          /\ pc \in {"delay", "loop"} => count < limit
          /\ Cardinality(procs) = limit =>
               \A k \in 1..Len(events) :
                 (\A p \in procs : k > p) => events[k].op \notin {"delay", "examine", "process"}

\* The spec's scenario: limit 1, two eligible rows, the run is over, one record was
\* processed and no delay happened.
C7_Witness ==
    /\ pc = "done" /\ limit = 1
    /\ Len(table) = 2 /\ Eligible(table[1]) /\ Eligible(table[2])
    /\ Cardinality(Ops({"process"})) = 1
    /\ EvCount("process", 1) = 1
    /\ Ops({"delay"}) = {}

\* The states in which the four field loops of the running call have run.
FieldsDone == pc \in {"f_uploads", "f_submit", "f_detect", "f_close"}

FieldNames == {"name", "email", "phone", "message"}

\* The positions of the selectors of list sels that satisfy P.
Positions(sels, P(_)) == { k \in 1..Len(sels) : P(sels[k]) }

First(S) == CHOOSE k \in S : \A m \in S : k <= m

\* C8 as stated: each field is filled by the first selector of its list that matches
\* an element, no selector after that one is tried, and a field none of whose
\* selectors matches stays unfilled.
C8_FirstMatchFills ==
    FieldsDone =>
      \A f \in FieldNames :
        LET sels == Selectors[f]
            hit == Positions(sels, LAMBDA sel : sel \in Page.matches)
        IN  IF hit # {}
            THEN /\ form[f].filledBy = sels[First(hit)]
                 /\ form[f].tried = SubSeq(sels, 1, First(hit))
            ELSE /\ form[f].filledBy = None
                 /\ form[f].tried = sels

\* C8 amended: each field is filled by the first selector of its list that matches
\* an element and whose fill completes; the selectors are tried in list order up to
\* that one and none after it, so at most one fill completes per field; a selector
\* whose query or fill raises is passed over like one that matches nothing; when no
\* selector fills, the field stays unfilled, every selector was tried and the call
\* has not raised.
C8_FirstFillableFills ==
    FieldsDone =>
      \A f \in FieldNames :
        LET sels == Selectors[f]
            fillable(sel) == sel \in Page.matches /\ sel \notin Page.inert /\ sel \notin Page.errs
            ok == Positions(sels, fillable)
            done == IF ok # {} THEN First(ok) ELSE Len(sels)
        IN  /\ form[f].tried = SubSeq(sels, 1, done)
            /\ form[f].fillCalls =
                 SelectSeq(form[f].tried, LAMBDA sel : sel \in Page.matches /\ sel \notin Page.errs)
            /\ Cardinality(Positions(form[f].fillCalls, fillable)) <= 1
            /\ form[f].filledBy = IF ok # {} THEN sels[First(ok)] ELSE None
            /\ ~form.raised

\* The four loops have run on a page where the first matching name input refuses the
\* fill and a later one takes it, the second phone selector is the first to match,
\* the only matching email input refuses the fill, and no message selector matches.
C8_Witness ==
    /\ FieldsDone
    /\ form.name.fillCalls = <<Selectors.name[1], Selectors.name[4]>>
    /\ form.name.filledBy = Selectors.name[4]
    /\ form.phone.tried = <<Selectors.phone[1], Selectors.phone[2]>>
    /\ form.phone.filledBy = Selectors.phone[2]
    /\ form.email.filledBy = None /\ Len(form.email.fillCalls) = 1
    /\ form.message.filledBy = None /\ form.message.fillCalls = <<>>

\* The form call of the current record has returned its composite string.
Returned == pc = "proc_form_log" /\ form.returned /\ form.ret # S_pw_missing

\* C9: the returned string starts with "success_detected; " if the lower-cased page
\* text holds one of the success keywords; otherwise with "submitted; " if the click
\* on some submit selector completed, and with "clicked_failed; " if none did. The
\* submit selectors are clicked in list order up to the first whose click completes
\* and none after it.
C9_Outcome ==
    Returned =>
      LET sels == Selectors.submit
          text == IF Page.contentOk THEN Lower(Page.content) ELSE <<>>
          keyword == \E k \in 1..Len(SuccessTexts) : Contains(text, SuccessTexts[k])
          works == Positions(sels, LAMBDA sel : sel \in Page.matches /\ sel \notin Page.inert
                                                  /\ sel \notin Page.errs)
          expected == IF keyword THEN S_success_detected
                      ELSE IF works # {} THEN S_submitted ELSE S_clicked_failed
      IN  /\ StartsWith(form.ret, expected \o <<";", " ">>)
          /\ form.submit.clicks = SubSeq(sels, 1, IF works # {} THEN First(works) ELSE Len(sels))
          /\ form.submit.clicked = IF works # {} THEN sels[First(works)] ELSE None

\* A call returned "submitted; ..." after the first submit control refused the click
\* and the fourth selector's click completed, the last three never being clicked.
C9_Witness ==
    /\ Returned
    /\ StartsWith(form.ret, S_submitted)
    /\ form.submit.clicked = Selectors.submit[4]
    /\ Len(form.submit.clicks) = 4
    /\ Selectors.submit[7] \in Page.matches

\* C10: once the page is open no step makes the call raise: the call goes through
\* every step and returns "<outcome>; uploads cv=<bool>, letter=<bool>, flyer=<bool>"
\* after closing the browser, whatever raised on the way; and a call that did raise
\* (launch or navigation failed, or the function's first line) gets a log entry
\* with status "error" and the exception text.
C10_StepFailuresStayLocal ==
    /\ (pc \in {"f_cookies", "f_name", "f_email", "f_phone", "f_message", "f_uploads",
                "f_submit", "f_detect", "f_close"}) => ~form.raised /\ browser = "open"
    /\ (pc = "proc_form_log" /\ EvCount("goto", i) = 1 /\ World[Comp.apply_url].goto) =>
         /\ form.returned /\ ~form.raised
         /\ EvCount("close", i) = 1 /\ browser = "closed"
         /\ \A f \in FieldNames : Len(form[f].tried) >= 1
         /\ Len(form.submit.clicks) >= 1
         /\ \E o \in {S_success_detected, S_submitted, S_clicked_failed} :
              \E a, b, c \in {S_True, S_False} :
                form.ret = o \o <<";", " ">> \o S_uploads_cv \o a \o S_letter \o b \o S_flyer \o c
    /\ \A r \in Rows :
         (EvCount("fill_form_raised", r) = 1) =>
            \E k \in RowEntries(r, "form") :
              Entries[k].status = "error" /\ Entries[k].details # <<>>

\* A call returned its composite string although selector queries raised on the way
\* and page.content() raised.
C10_Witness ==
    /\ Returned
    /\ ~Page.contentOk
    /\ \E k \in 1..Len(Selectors.name) : Selectors.name[k] \in Page.errs
    /\ StartsWith(form.ret, S_submitted)


\* The configured attachment keys whose file exists, in configured order.
PresentAttachments ==
    SelectSeq(Attachments(variant), LAMBDA key : key \in DOMAIN files /\ files[key] \in fs)

\* C11: build_email never raises over a missing attachment: whenever it was called
\* for a record it returned a message, and the message carries exactly the
\* configured attachments whose file exists (a key without an entry in the files
\* section, or with a path that does not exist, is left out).
C11_MissingAttachmentsOmitted ==
    \A r \in Rows :
      EvCount("build_email", r) = 1 =>
        /\ EvCount("build_email_raised", r) = 0
        /\ \E k \in 1..Len(built) :
             /\ built[k].row = r
             /\ built[k].attachments = PresentAttachments


\* The positions of fill_form_and_submit between the opened page and browser.close().
InsideForm == pc \in {"f_cookies", "f_name", "f_email", "f_phone", "f_message", "f_uploads",
                      "f_submit", "f_detect", "f_close"}

\* C12: at most one browser session is open at any time, and only while the form
\* call of the current record is between its navigation and its close; once the call
\* is over, by return or by exception, and whenever a record is examined or starts
\* being processed, no session is open.
C12_SessionPerRecord ==
    /\ Cardinality(sessions) <= 1
    /\ sessions # {} => InsideForm /\ sessions = {i}
    /\ pc \in {"loop", "proc_email", "proc_form", "f_launch", "proc_form_log", "after", "delay",
               "finish", "done"} => sessions = {}
    /\ \A r \in Rows : EvCount("launch", r) <= 1

\* The second record's page is open after the first record's form call launched a
\* browser and closed it.
C12_Witness ==
    /\ i = 2 /\ pc = "f_cookies"
    /\ EvCount("launch", 1) = 1 /\ EvCount("close", 1) = 1
    /\ sessions = {2}


\* The log file is absent and empty, or it is one header line holding the six column
\* names followed by data rows only.
C13_Shape ==
    /\ logfile.exists <=> logfile.lines # <<>>
    /\ logfile.lines # <<>> =>
         /\ logfile.lines[1].kind = "header"
         /\ logfile.lines[1].row =
              <<"timestamp", "company", "channel", "target", "status", "details">>
         /\ Len(logfile.lines) >= 2
         /\ \A k \in 2..Len(logfile.lines) :
              /\ logfile.lines[k].kind = "row"
              /\ DOMAIN logfile.lines[k].row =
                   {"timestamp", "company", "channel", "target", "status", "details"}

\* A step that touches the log is one append: every earlier line stays where and
\* what it was, and exactly one line is added at the end, the row of the record
\* being processed (after the header when the file was absent).
C13_Step ==
    logfile' # logfile =>
      LET old == logfile.lines
          new == logfile'.lines
      IN  /\ Len(new) = Len(old) + (IF old = <<>> THEN 2 ELSE 1)
          /\ SubSeq(new, 1, Len(old)) = old
          /\ new[Len(new)].kind = "row"
          /\ new[Len(new)].row.timestamp = ts
          /\ new[Len(new)].row.company = Comp.company

\* C13: starting from an absent log file, the log is append-only with a single
\* header: at any time it is exactly one header row followed by the rows appended so
\* far in call order, and no call changes or removes an earlier row.
C13_AppendOnlySingleHeader == [](C13_Shape) /\ [][C13_Step]_vars

\* A finished run that appended four rows: one header, then the four rows.
C13_Witness ==
    /\ pc = "done"
    /\ Len(logfile.lines) = 5
    /\ Len(Entries) = 4


\* The upload fields: the selector group, the local of the call that holds the
\* result, the label in the result string, and the entry of the files section that
\* configures the field's document in the running variant's configuration.
UploadFields ==
    { [group |-> "cv_upload", local |-> "cv_ok", label |-> S_uploads_cv, key |-> "cv"],
      [group |-> "letter_upload", local |-> "letter_ok", label |-> S_letter,
       key |-> "cover_letter"],
      [group |-> "flyer_upload", local |-> "flyer_ok", label |-> S_flyer,
       key |-> IF variant = "modular" THEN "flyer" ELSE "simplon_flyer"] }

LoopTrace == SelectSeq(events, LAMBDA e : e.op \in {"examine", "process", "delay"})

\* The number of process_company calls among the first k entries of loop trace T.
ProcessedUpTo(T, k) == Cardinality({ m \in 1..k : T[m].op = "process" })

\* C15: every delay comes straight after a process_company call of the same record,
\* never after a skipped record; whatever follows a process_company call in the loop
\* (the next record examined included) is preceded by exactly one delay; a call
\* followed by a delay did not reach the limit; and when the loop is over, the last
\* call is without a delay only if it reached the limit, so that without a limit the
\* last processed record is followed by a delay too.
C15_DelayAfterProcessed ==
    LET T == LoopTrace
    IN  /\ \A k \in 1..Len(T) :
             /\ T[k].op = "delay" =>
                  /\ k > 1 /\ T[k - 1].op = "process" /\ T[k - 1].row = T[k].row
                  /\ ~(limit # 0 /\ ProcessedUpTo(T, k) >= limit)
             /\ (T[k].op = "process" /\ k < Len(T)) =>
                  /\ T[k + 1].op = "delay" /\ T[k + 1].row = T[k].row
             /\ (T[k].op = "process" /\ k = Len(T) /\ pc \in {"loop", "finish", "done"}) =>
                  limit # 0 /\ ProcessedUpTo(T, k) = limit
             /\ (T[k].op = "examine" /\ k < Len(T)) =>
                  T[k + 1].op \in {"examine", "process"}
        /\ \A k1, k2 \in 1..Len(T) :
             (/\ k1 < k2 /\ T[k1].op = "process" /\ T[k2].op = "process"
              /\ \A m \in (k1 + 1)..(k2 - 1) : T[m].op # "process")
               => Cardinality({ m \in k1..k2 : T[m].op = "delay" }) = 1

\* A finished run without a limit: the first record was processed and followed by a
\* delay, the second, last record was skipped without one.
C15_Witness ==
    /\ pc = "done" /\ limit = 0
    /\ [k \in 1..Len(LoopTrace) |-> <<LoopTrace[k].op, LoopTrace[k].row>>]
         = << <<"examine", 1>>, <<"process", 1>>, <<"delay", 1>>, <<"examine", 2>> >>


\* The eligible rows of the input table, and the first n of them in table order.
EligibleRows == { r \in 1..Len(table) : Eligible(table[r]) }

FirstEligible(n) == { r \in EligibleRows : Cardinality({ q \in EligibleRows : q <= r }) <= n }

\* The table rows that were passed to process_company.
ProcessedRows == { events[k].row : k \in Ops({"process"}) }

\* C16: with a limit L >= 1 and a table holding at least L eligible rows, a finished
\* run has processed exactly L records, the first L eligible rows in table order,
\* wherever the skipped rows stand.
C16_LimitCountsProcessed ==
    (pc = "done" /\ limit >= 1 /\ Cardinality(EligibleRows) >= limit) =>
      /\ Cardinality(ProcessedRows) = limit
      /\ ProcessedRows = FirstEligible(limit)


\* The process_company calls of the run, in order: the record and the starting time.
ProcessCalls == SelectSeq(events, LAMBDA e : e.op = "process")

\* The call a log entry stamped t was written by: the last of the calls P to start
\* at or before t (a call of record 0 if there is none).
OwnerCall(P, t) ==
    LET before == { m \in 1..Len(P) : P[m].at <= t }
    IN  IF before = {} THEN [op |-> "none", row |-> 0, at |-> 0]
        ELSE P[CHOOSE m \in before : \A n \in before : P[n].at <= P[m].at]

\* C17: every log entry belongs to a processed record and names its company; a
\* record has at most one email entry and at most one form entry, the email entry
\* before the form entry, both stamped with the time the record's processing
\* started; records are processed in table order and the entries of an earlier
\* record all stand before those of a later one; and in a real run a record whose
\* mail failed still gets its form call and its form entry when the form channel
\* applies to it.
C17_LogOrder ==
    LET P == ProcessCalls
        E == Entries
        own == [k \in 1..Len(E) |-> OwnerCall(P, E[k].timestamp)]
        of(r, ch) == { k \in 1..Len(E) : own[k].row = r /\ E[k].channel = ch }
    IN  /\ \A k \in 1..Len(E) :
             /\ own[k].row \in Rows
             /\ E[k].company = companies[own[k].row].company
             /\ E[k].timestamp = own[k].at
             /\ E[k].channel \in {"email", "form"}
        /\ \A r \in Rows :
             /\ Cardinality(of(r, "email")) <= 1
             /\ Cardinality(of(r, "form")) <= 1
             /\ \A ke \in of(r, "email") : \A kf \in of(r, "form") : ke < kf
        /\ \A k1, k2 \in 1..Len(E) : k1 < k2 => own[k1].row <= own[k2].row
        /\ \A m1, m2 \in 1..Len(P) : m1 < m2 => P[m1].row < P[m2].row
        /\ \A r \in Rows :
             (/\ ProcessDone(r) /\ ~dry_run
              /\ \E ke \in of(r, "email") : E[ke].status = "error"
              /\ ChannelApplies(companies[r], "form"))
               => /\ EvCount("fill_form_and_submit", r) = 1
                  /\ Cardinality(of(r, "form")) = 1

\* A finished run whose log reads: the first record's failed mail, the first
\* record's form entry with the same timestamp, then the second record's mail and
\* form entries with a later one.
C17_Witness ==
    /\ pc = "done" /\ Len(Entries) = 4
    /\ Entries[1].channel = "email" /\ Entries[1].status = "error"
    /\ Entries[2].channel = "form" /\ Entries[2].timestamp = Entries[1].timestamp
    /\ Entries[3].channel = "email" /\ Entries[3].timestamp > Entries[2].timestamp
    /\ Entries[4].channel = "form" /\ Entries[4].timestamp = Entries[3].timestamp



\* The one-function form of the call gives what the step-by-step call of the running
\* variant gave.
FormCallMatchesSteps ==
    pc = "proc_form_log" =>
      LET c == FormCall(variant, playwrightInstalled, form.url, files, fs)
      IN  /\ c.raised = form.raised
          /\ c.text = (IF form.raised THEN form.exc ELSE form.ret)

OtherVariant == IF variant = "modular" THEN "monolith" ELSE "modular"

\* The files section entry of variant v that names the same document as entry key
\* of the running variant: the flyer is "flyer" in one default configuration and
\* "simplon_flyer" in the other.
SameDocument(v, key) ==
    IF key \in {"flyer", "simplon_flyer"}
    THEN (IF v = "modular" THEN "flyer" ELSE "simplon_flyer")
    ELSE key

\* The file system as the other variant's default configuration names it: the same
\* documents are present.
OtherFs == { Files(OtherVariant)[SameDocument(OtherVariant, key)] :
               key \in { k \in DOMAIN files : files[k] \in fs } }

\* C18: with the default configurations, whenever the form call of a record is over,
\* the other variant's fill_form_and_submit gives the same result on the same
\* record, page and documents: it raises or returns alike, returns the same string
\* (upload booleans included), and process_company logs the same status.
C18_VariantsAgree ==
    (pc = "proc_form_log" /\ files = Files(variant)) =>
      LET other == FormCall(OtherVariant, playwrightInstalled, form.url,
                            Files(OtherVariant), OtherFs)
          status(raised, text) == IF raised THEN "error" ELSE FormStatus(text)
      IN  /\ form.raised = other.raised
          /\ ~other.raised => form.ret = other.text
          /\ status(form.raised, IF form.raised THEN form.exc ELSE form.ret)
               = status(other.raised, other.text)

====
